---- MODULE Spec2Model ----
(***************************************************************************)
(* Model of common/ferrostar/src/routing_adapters/mod.rs: the RouteRequest *)
(* envelope, the two capability traits, the RouteAdapter composite with    *)
(* its two constructors and two proxied methods, and the JsRouteAdapter    *)
(* wrapper exposed to a JavaScript host.                                   *)
(*                                                                         *)
(* Native callers are threads sharing one RouteAdapter: a call is the      *)
(* three steps call (arguments moved into the callee's frame), body (the   *)
(* method body runs) and return (the caller takes the result), which       *)
(* interleave freely between callers.  The JavaScript host is              *)
(* single-threaded, so a wrapper method is one step.                       *)
(***************************************************************************)
EXTENDS Naturals, Sequences, FiniteSets

\* ------------------------------------------------------------------ bounds

MaxWaypoints == 2
MaxResponseLen == 2
MaxCalls == 3

\* ------------------------------------------------------------ value domains

Callers == {"t1", "t2"}
UserLocations == {1, 2}
WaypointValues == {10, 11}
ResponseBytes == {0, 1}
Profiles == {"auto", "bicycle"}
EndpointUrls == {"https://valhalla.example/route"}

SeqsUpTo(S, n) == UNION {[1..k -> S] : k \in 0..n}

WaypointSeqs == SeqsUpTo(WaypointValues, MaxWaypoints)
Responses == SeqsUpTo(ResponseBytes, MaxResponseLen)

\* Result<T, E> and Option<T>
Ok(v) == [ok |-> TRUE, value |-> v]
Err(e) == [ok |-> FALSE, error |-> e]
None == [some |-> FALSE]
Some(v) == [some |-> TRUE, value |-> v]

\* Display of an error value (format!("{}", e), e.to_string()): a text that
\* keeps nothing of the error but its message.
to_string(e) == <<"Display", e>>

\* ------------------------------------------------------------ RouteRequest

HttpPost(url, headers, body) ==
    [type |-> "HttpPost", url |-> url, headers |-> headers, body |-> body]

HttpGet(url, headers) ==
    [type |-> "HttpGet", url |-> url, headers |-> headers]

Url(base, query) == [base |-> base, query |-> query]

ProfileByte(p) == IF p = "auto" THEN 97 ELSE 98

\* ------------------------------------------- capability implementations

\* The options payload of the Valhalla generator: JSON text, parsed.
CostingOptionsInputs == {None, Some("{}"), Some("not json")}
IsJson(s) == s \in {"{}"}

ValhallaHttpRequestGenerator_with_costing_options_json(endpoint_url, profile, costing_options_json) ==
    IF costing_options_json.some /\ ~IsJson(costing_options_json.value)
    THEN Err("OptionsJsonParseError")
    ELSE Ok([kind |-> "valhalla",
             endpoint_url |-> endpoint_url,
             profile |-> profile,
             costing_options |-> "{}"])

OsrmResponseParser_new(polyline_precision) ==
    [kind |-> "osrm", polyline_precision |-> polyline_precision]

\* Implementations supplied by foreign code (uniffi with_foreign).
ForeignGenerators == {[kind |-> "foreign_get"], [kind |-> "foreign_post"]}
ForeignParsers == {[kind |-> "foreign"]}
Parsers == ForeignParsers \cup {OsrmResponseParser_new(6)}

\* dyn RouteRequestGenerator::generate_request, by implementation.  `profile`
\* is the configuration the implementation holds when it is invoked.
GeneratorResult(g, profile, user_location, waypoints) ==
    CASE g.kind = "valhalla" ->
           IF waypoints = <<>>
           THEN Err("NotEnoughWaypoints")
           ELSE Ok(HttpPost(Url(g.endpoint_url, <<>>),
                            [k \in {"Content-Type"} |-> "application/json"],
                            <<ProfileByte(profile), user_location>> \o waypoints))
      [] g.kind = "foreign_get" ->
           Ok(HttpGet(Url("https://get.example/route",
                          <<ProfileByte(profile), user_location>> \o waypoints),
                      [k \in {"Accept"} |-> "application/json"]))
      [] g.kind = "foreign_post" ->
           IF Len(waypoints) > 1
           THEN Err("UnknownRequestGenerationError")
           ELSE Ok(HttpPost(Url("https://post.example/route", <<ProfileByte(profile)>>),
                            [k \in {} |-> ""],
                            waypoints))

RoutesOf(bytes, precision) ==
    [i \in 1..Len(bytes) |-> [geometry |-> bytes[i], precision |-> precision]]

\* dyn RouteResponseParser::parse_response, by implementation.
ParserResult(p, response) ==
    CASE p.kind = "osrm" ->
           IF response = <<>> THEN Err("ParseError")
           ELSE IF Head(response) = 0 THEN Err("InvalidStatusCode")
           ELSE Ok(RoutesOf(Tail(response), p.polyline_precision))
      [] p.kind = "foreign" ->
           IF response # <<>> /\ response[Len(response)] = 0
           THEN Err("UnknownParsingError")
           ELSE Ok(RoutesOf(response, 0))

\* ------------------------------------------------------------------ state

NoAdapter == [kind |-> "none"]
Idle == [pc |-> "idle"]
NoCall == [op |-> "none"]

VARIABLES
    adapter,          \* the RouteAdapter: its two fields, or NoAdapter before construction
    wrapped,          \* TRUE when the adapter is the field of a JsRouteAdapter
    constructed,      \* what the last constructor call was given and returned
    foreign_profile,  \* the profile a foreign generator is configured with
    frames,           \* per native caller: the call in flight and its result
    js_last,          \* the last wrapper call of the host and what it was handed
    gen_calls,        \* bodies of RouteAdapter::generate_request run so far
    gen_invocations   \* invocations of the held generator so far

vars == <<adapter, wrapped, constructed, foreign_profile, frames, js_last,
          gen_calls, gen_invocations>>

\* The configuration a generator holds now: fixed at construction for the
\* Valhalla generator, a property of the foreign object otherwise.
ConfigOf(g) == IF g.kind = "valhalla" THEN g.profile ELSE foreign_profile

RouteRequestGenerator_generate_request(g, user_location, waypoints) ==
    GeneratorResult(g, ConfigOf(g), user_location, waypoints)

RouteResponseParser_parse_response(p, response) == ParserResult(p, response)

\* ---------------------------------------------------------- RouteAdapter

\* Faulty variant: the supplied parser is ignored for the known pairing's.
RouteAdapter_new_fixed_parser(request_generator, response_parser) ==
    [request_generator |-> request_generator,
     response_parser |-> OsrmResponseParser_new(6)]

RouteAdapter_new(request_generator, response_parser) ==
    [request_generator |-> request_generator, response_parser |-> response_parser]

\* Faulty variant: a payload that does not parse falls back to no options.
RouteAdapter_new_valhalla_http_fallback(endpoint_url, profile, costing_options_json) ==
    LET request_generator ==
            ValhallaHttpRequestGenerator_with_costing_options_json(
                endpoint_url, profile, costing_options_json)
        fallback ==
            ValhallaHttpRequestGenerator_with_costing_options_json(
                endpoint_url, profile, None)
    IN  IF ~request_generator.ok
        THEN Ok(RouteAdapter_new(fallback.value, OsrmResponseParser_new(6)))
        ELSE Ok(RouteAdapter_new(request_generator.value, OsrmResponseParser_new(6)))

RouteAdapter_new_valhalla_http(endpoint_url, profile, costing_options_json) ==
    LET request_generator ==
            ValhallaHttpRequestGenerator_with_costing_options_json(
                endpoint_url, profile, costing_options_json)
    IN  IF ~request_generator.ok
        THEN Err(request_generator.error)
        ELSE Ok(RouteAdapter_new(request_generator.value, OsrmResponseParser_new(6)))

\* A method body is what it hands to the held capability (`delegated`: each
\* invocation with the arguments it was given) and what it returns.
Invocation(target, arguments) == [target |-> target, arguments |-> arguments]

InvokeGenerator(inv) ==
    RouteRequestGenerator_generate_request(inv.target, inv.arguments[1], inv.arguments[2])

InvokeParser(inv) ==
    RouteResponseParser_parse_response(inv.target, inv.arguments[1])

\* Faulty variant: the first waypoint is not passed on.
RouteAdapter_generate_request_skips_first(self, user_location, waypoints) ==
    LET inv == Invocation(self.request_generator,
                          <<user_location,
                            IF waypoints = <<>> THEN waypoints ELSE Tail(waypoints)>>)
    IN  [delegated |-> <<inv>>, result |-> InvokeGenerator(inv)]

\* Faulty variant: the arguments go through a slot shared by all callers, which a
\* call that has begun since has overwritten.
RouteAdapter_generate_request_shared_slot(self, user_location, waypoints) ==
    LET others == {c \in Callers :
                     /\ frames[c].pc = "gen_called"
                     /\ <<frames[c].user_location, frames[c].waypoints>>
                            # <<user_location, waypoints>>}
        args == IF others = {} THEN <<user_location, waypoints>>
                ELSE LET c == CHOOSE c \in others : TRUE
                     IN  <<frames[c].user_location, frames[c].waypoints>>
        inv == Invocation(self.request_generator, args)
    IN  [delegated |-> <<inv>>, result |-> InvokeGenerator(inv)]

\* Faulty variant: a result a caller still holds for the same arguments is reused
\* and the generator is not invoked.
RouteAdapter_generate_request_cached(self, user_location, waypoints) ==
    LET hits == {c \in Callers :
                   /\ frames[c].pc = "gen_returned"
                   /\ frames[c].user_location = user_location
                   /\ frames[c].waypoints = waypoints}
        inv == Invocation(self.request_generator, <<user_location, waypoints>>)
    IN  IF hits # {}
        THEN [delegated |-> <<>>, result |-> frames[CHOOSE c \in hits : TRUE].result]
        ELSE [delegated |-> <<inv>>, result |-> InvokeGenerator(inv)]

\* Faulty variant: the envelope carries a sequence number the adapter counts up.
RouteAdapter_generate_request_numbered(self, user_location, waypoints) ==
    LET inv == Invocation(self.request_generator, <<user_location, waypoints>>)
        r == InvokeGenerator(inv)
    IN  [delegated |-> <<inv>>,
         result |-> IF r.ok
                    THEN Ok([r.value EXCEPT !.url.query = @ \o <<gen_calls>>])
                    ELSE r]

RouteAdapter_generate_request(self, user_location, waypoints) ==
    LET inv == Invocation(self.request_generator, <<user_location, waypoints>>)
    IN  [delegated |-> <<inv>>, result |-> InvokeGenerator(inv)]

\* Faulty variant: a parser error becomes an empty route list.
RouteAdapter_parse_response_unwrap_or_default(self, response) ==
    LET inv == Invocation(self.response_parser, <<response>>)
        r == InvokeParser(inv)
    IN  [delegated |-> <<inv>>, result |-> IF r.ok THEN r ELSE Ok(<<>>)]

RouteAdapter_parse_response(self, response) ==
    LET inv == Invocation(self.response_parser, <<response>>)
    IN  [delegated |-> <<inv>>, result |-> InvokeParser(inv)]

\* -------------------------------------------------------- JsRouteAdapter

\* Values of the JavaScript host.
JsValue_from_str(s) == [js |-> "string", value |-> s]
JsArray(items) == [js |-> "Array", items |-> items]
JsMap(entries) == [js |-> "Map", entries |-> entries]
JsObject(fields) == [js |-> "object", fields |-> fields]

\* serde_wasm_bindgen::Error holds a JavaScript Error object; JsValue::from
\* hands that object over as it is.
SerdeError(msg) == [serde_wasm_bindgen_error |-> msg]
JsValue_from(e) == [js |-> "Error", message |-> e.serde_wasm_bindgen_error]

\* What the host may pass for user_location and for waypoints.
JsUserLocations ==
    {[js |-> "object", payload |-> l] : l \in UserLocations}
        \cup {[js |-> "undefined", payload |-> 0]}
JsWaypoints ==
    {[js |-> "Array", payload |-> w] : w \in WaypointSeqs}
        \cup {[js |-> "string", payload |-> <<>>]}

from_value_UserLocation(v) ==
    IF v.js = "object" THEN Ok(v.payload)
    ELSE Err(SerdeError("invalid type: expected struct UserLocation"))

from_value_Waypoints(v) ==
    IF v.js = "Array" THEN Ok(v.payload)
    ELSE Err(SerdeError("invalid type: expected a sequence"))

\* serde_wasm_bindgen::to_value; `encodes` is whether the serializer accepts
\* the value.
to_value(js, encodes) ==
    IF encodes THEN Ok(js) ELSE Err(SerdeError("value cannot be serialized"))

\* Faulty variant: the GET shape is given an empty body.
EnvelopeJson_body_always(request) ==
    JsMap([k \in {"method", "url", "headers", "body"} |->
             CASE k = "method" ->
                    JsValue_from_str(IF request.type = "HttpPost" THEN "post" ELSE "get")
               [] k = "url" -> JsValue_from_str(request.url)
               [] k = "headers" ->
                    JsMap([h \in DOMAIN request.headers |->
                             JsValue_from_str(request.headers[h])])
               [] k = "body" ->
                    JsArray(IF request.type = "HttpPost" THEN request.body ELSE <<>>)])

\* json!({...}) of an envelope, as the host value the default serializer
\* makes of it: maps become Map objects, byte vectors arrays of numbers.
EnvelopeJson(request) ==
    IF request.type = "HttpPost"
    THEN JsMap([k \in {"method", "url", "headers", "body"} |->
                  CASE k = "method" -> JsValue_from_str("post")
                    [] k = "url" -> JsValue_from_str(request.url)
                    [] k = "headers" ->
                         JsMap([h \in DOMAIN request.headers |->
                                  JsValue_from_str(request.headers[h])])
                    [] k = "body" -> JsArray(request.body)])
    ELSE JsMap([k \in {"method", "url", "headers"} |->
                  CASE k = "method" -> JsValue_from_str("get")
                    [] k = "url" -> JsValue_from_str(request.url)
                    [] k = "headers" ->
                         JsMap([h \in DOMAIN request.headers |->
                                  JsValue_from_str(request.headers[h])])])

RoutesJson(routes) == JsArray([i \in 1..Len(routes) |-> JsObject(routes[i])])

\* A JsRouteAdapter is the tuple struct <<RouteAdapter>>: self[1] is self.0.
JsRouteAdapter_new(endpoint_url, profile, costing_options_json) ==
    LET r == RouteAdapter_new_valhalla_http(endpoint_url, profile, costing_options_json)
    IN  IF r.ok THEN Ok(<<r.value>>) ELSE Err(JsValue_from_str(to_string(r.error)))

\* The match on the adapter's result in JsRouteAdapter::generate_request:
\* both envelope shapes are encoded into one host structure, an error into
\* its text.
generate_request_match(outcome, encodes) ==
    IF ~outcome.ok
    THEN Err(JsValue_from_str(to_string(outcome.error)))
    ELSE LET encoded == to_value(EnvelopeJson(outcome.value), encodes)
         IN  IF encoded.ok THEN encoded
             ELSE Err(JsValue_from_str(to_string(encoded.error)))

\* Faulty variant: both inputs are decoded before either failure is looked at.
JsRouteAdapter_generate_request_decodes_both(self, user_location, waypoints, encodes) ==
    LET location == from_value_UserLocation(user_location)
        points == from_value_Waypoints(waypoints)
    IN  IF ~location.ok \/ ~points.ok
        THEN [steps |-> <<"decode user_location", "decode waypoints">>,
              inner |-> <<>>, delegated |-> <<>>,
              result |-> Err(JsValue_from_str(to_string(
                             IF ~location.ok THEN location.error ELSE points.error)))]
        ELSE LET call == RouteAdapter_generate_request(self[1], location.value, points.value)
             IN  [steps |-> <<"decode user_location", "decode waypoints", "invoke">>
                              \o (IF call.result.ok THEN <<"encode">> ELSE <<>>),
                  inner |-> <<call.result>>,
                  delegated |-> call.delegated,
                  result |-> generate_request_match(call.result, encodes)]

\* `steps`: the steps the body took, in order; `inner`: the results of the
\* calls it made on the wrapped adapter; `delegated`: the invocations those
\* calls made.
JsRouteAdapter_generate_request(self, user_location, waypoints, encodes) ==
    LET location == from_value_UserLocation(user_location)
        points == from_value_Waypoints(waypoints)
    IN  IF ~location.ok
        THEN [steps |-> <<"decode user_location">>, inner |-> <<>>, delegated |-> <<>>,
              result |-> Err(JsValue_from_str(to_string(location.error)))]
        ELSE IF ~points.ok
        THEN [steps |-> <<"decode user_location", "decode waypoints">>,
              inner |-> <<>>, delegated |-> <<>>,
              result |-> Err(JsValue_from_str(to_string(points.error)))]
        ELSE LET call == RouteAdapter_generate_request(self[1], location.value, points.value)
             IN  [steps |-> <<"decode user_location", "decode waypoints", "invoke">>
                              \o (IF call.result.ok THEN <<"encode">> ELSE <<>>),
                  inner |-> <<call.result>>,
                  delegated |-> call.delegated,
                  result |-> generate_request_match(call.result, encodes)]

JsRouteAdapter_parse_response(self, response, encodes) ==
    LET call == RouteAdapter_parse_response(self[1], response)
        encoded == to_value(RoutesJson(call.result.value), encodes)
    IN  IF ~call.result.ok
        THEN [steps |-> <<"invoke">>, inner |-> <<call.result>>,
              delegated |-> call.delegated,
              result |-> Err(JsValue_from_str(to_string(call.result.error)))]
        ELSE [steps |-> <<"invoke", "encode">>, inner |-> <<call.result>>,
              delegated |-> call.delegated,
              result |-> IF encoded.ok THEN encoded ELSE Err(JsValue_from(encoded.error))]

\* ---------------------------------------------------------------- actions

Init ==
    /\ adapter = NoAdapter
    /\ wrapped = FALSE
    /\ constructed = NoCall
    /\ foreign_profile = "auto"
    /\ frames = [c \in Callers |-> Idle]
    /\ js_last = NoCall
    /\ gen_calls = 0
    /\ gen_invocations = 0

\* generate_request calls begun and not yet run, plus those run.
GenCallsBegun == gen_calls + Cardinality({c \in Callers : frames[c].pc = "gen_called"})

\* RouteAdapter::new
New(request_generator, response_parser) ==
    /\ adapter = NoAdapter
    /\ adapter' = RouteAdapter_new(request_generator, response_parser)
    /\ wrapped' = FALSE
    /\ constructed' = [op |-> "new",
                       arguments |-> <<request_generator, response_parser>>,
                       result |-> Ok(adapter')]
    /\ UNCHANGED <<foreign_profile, frames, js_last, gen_calls, gen_invocations>>

\* RouteAdapter::new_valhalla_http
NewValhallaHttp(endpoint_url, profile, costing_options_json) ==
    LET r == RouteAdapter_new_valhalla_http(endpoint_url, profile, costing_options_json)
    IN  /\ adapter = NoAdapter
        /\ adapter' = IF r.ok THEN r.value ELSE NoAdapter
        /\ wrapped' = FALSE
        /\ constructed' = [op |-> "new_valhalla_http",
                           arguments |-> <<endpoint_url, profile, costing_options_json>>,
                           result |-> r]
        /\ UNCHANGED <<foreign_profile, frames, js_last, gen_calls, gen_invocations>>

\* JsRouteAdapter::new
JsNew(endpoint_url, profile, costing_options_json) ==
    LET r == JsRouteAdapter_new(endpoint_url, profile, costing_options_json)
    IN  /\ adapter = NoAdapter
        /\ adapter' = IF r.ok THEN r.value[1] ELSE NoAdapter
        /\ wrapped' = r.ok
        /\ constructed' = [op |-> "JsRouteAdapter::new",
                           arguments |-> <<endpoint_url, profile, costing_options_json>>,
                           result |-> r]
        /\ UNCHANGED <<foreign_profile, frames, js_last, gen_calls, gen_invocations>>

\* A native caller calls generate_request on the shared adapter.
CallGenerateRequest(c, user_location, waypoints) ==
    /\ adapter # NoAdapter /\ ~wrapped
    /\ frames[c].pc = "idle"
    /\ GenCallsBegun < MaxCalls
    /\ frames' = [frames EXCEPT ![c] = [pc |-> "gen_called",
                                        user_location |-> user_location,
                                        waypoints |-> waypoints]]
    /\ UNCHANGED <<adapter, wrapped, constructed, foreign_profile, js_last,
                   gen_calls, gen_invocations>>

\* The body of RouteAdapter::generate_request runs for caller c.
BodyGenerateRequest(c) ==
    /\ frames[c].pc = "gen_called"
    /\ LET call == RouteAdapter_generate_request(
                       adapter, frames[c].user_location, frames[c].waypoints)
       IN  /\ frames' = [frames EXCEPT ![c] =
                           [pc |-> "gen_returned",
                            user_location |-> frames[c].user_location,
                            waypoints |-> frames[c].waypoints,
                            profile |-> ConfigOf(adapter.request_generator),
                            delegated |-> call.delegated,
                            result |-> call.result]]
           /\ gen_calls' = gen_calls + 1
           /\ gen_invocations' = gen_invocations + Len(call.delegated)
    /\ UNCHANGED <<adapter, wrapped, constructed, foreign_profile, js_last>>

\* A native caller calls parse_response on the shared adapter.
CallParseResponse(c, response) ==
    /\ adapter # NoAdapter /\ ~wrapped
    /\ frames[c].pc = "idle"
    /\ frames' = [frames EXCEPT ![c] = [pc |-> "parse_called", response |-> response]]
    /\ UNCHANGED <<adapter, wrapped, constructed, foreign_profile, js_last,
                   gen_calls, gen_invocations>>

\* The body of RouteAdapter::parse_response runs for caller c.
BodyParseResponse(c) ==
    /\ frames[c].pc = "parse_called"
    /\ LET call == RouteAdapter_parse_response(adapter, frames[c].response)
       IN  frames' = [frames EXCEPT ![c] =
                        [pc |-> "parse_returned",
                         response |-> frames[c].response,
                         delegated |-> call.delegated,
                         result |-> call.result]]
    /\ UNCHANGED <<adapter, wrapped, constructed, foreign_profile, js_last,
                   gen_calls, gen_invocations>>

\* The caller takes the result; its frame is gone.
Return(c) ==
    /\ frames[c].pc \in {"gen_returned", "parse_returned"}
    /\ frames' = [frames EXCEPT ![c] = Idle]
    /\ UNCHANGED <<adapter, wrapped, constructed, foreign_profile, js_last,
                   gen_calls, gen_invocations>>

\* The owner of a foreign generator configures it anew ("or otherwise
\* configured before use").
Reconfigure(profile) ==
    /\ adapter # NoAdapter
    /\ adapter.request_generator \in ForeignGenerators
    /\ profile # foreign_profile
    /\ foreign_profile' = profile
    /\ UNCHANGED <<adapter, wrapped, constructed, frames, js_last,
                   gen_calls, gen_invocations>>

\* JsRouteAdapter::generate_request (generateRequest)
JsGenerateRequest(user_location, waypoints, encodes) ==
    /\ adapter # NoAdapter /\ wrapped
    /\ gen_calls < MaxCalls
    /\ LET call == JsRouteAdapter_generate_request(
                       <<adapter>>, user_location, waypoints, encodes)
       IN  /\ js_last' = [op |-> "generateRequest",
                          arguments |-> <<user_location, waypoints>>,
                          steps |-> call.steps,
                          inner |-> call.inner,
                          delegated |-> call.delegated,
                          result |-> call.result]
           /\ gen_calls' = gen_calls + Len(call.inner)
           /\ gen_invocations' = gen_invocations + Len(call.delegated)
    /\ UNCHANGED <<adapter, wrapped, constructed, foreign_profile, frames>>

\* JsRouteAdapter::parse_response (parseResponse)
JsParseResponse(response, encodes) ==
    /\ adapter # NoAdapter /\ wrapped
    /\ LET call == JsRouteAdapter_parse_response(<<adapter>>, response, encodes)
       IN  js_last' = [op |-> "parseResponse",
                       arguments |-> <<response>>,
                       steps |-> call.steps,
                       inner |-> call.inner,
                       delegated |-> call.delegated,
                       result |-> call.result]
    /\ UNCHANGED <<adapter, wrapped, constructed, foreign_profile, frames,
                   gen_calls, gen_invocations>>

Next ==
    \/ \E g \in ForeignGenerators, p \in Parsers : New(g, p)
    \/ \E u \in EndpointUrls, p \in Profiles, o \in CostingOptionsInputs :
           NewValhallaHttp(u, p, o)
    \/ \E u \in EndpointUrls, p \in Profiles, o \in CostingOptionsInputs :
           JsNew(u, p, o)
    \/ \E c \in Callers, l \in UserLocations, w \in WaypointSeqs :
           CallGenerateRequest(c, l, w)
    \/ \E c \in Callers : BodyGenerateRequest(c)
    \/ \E c \in Callers, r \in Responses : CallParseResponse(c, r)
    \/ \E c \in Callers : BodyParseResponse(c)
    \/ \E c \in Callers : Return(c)
    \/ \E p \in Profiles : Reconfigure(p)
    \/ \E l \in JsUserLocations, w \in JsWaypoints, e \in BOOLEAN :
           JsGenerateRequest(l, w, e)
    \/ \E r \in Responses, e \in BOOLEAN : JsParseResponse(r, e)

Spec == Init /\ [][Next]_vars

\* The encoder of generateRequest on its own, over every outcome a generator
\* of the model can hand it.
Generators ==
    ForeignGenerators \cup
    {ValhallaHttpRequestGenerator_with_costing_options_json(u, p, None).value :
        u \in EndpointUrls, p \in Profiles}

GeneratorOutcomes ==
    {GeneratorResult(g, p, l, w) :
        g \in Generators, p \in Profiles, l \in UserLocations, w \in WaypointSeqs}

EncodeOutcome(outcome, encodes) ==
    /\ js_last' = [op |-> "encode",
                   inner |-> <<outcome>>,
                   result |-> generate_request_match(outcome, encodes)]
    /\ UNCHANGED <<adapter, wrapped, constructed, foreign_profile, frames,
                   gen_calls, gen_invocations>>

NextEncoder == \E o \in GeneratorOutcomes, e \in BOOLEAN : EncodeOutcome(o, e)

SpecEncoder == Init /\ [][NextEncoder]_vars

\* ------------------------------------------------------------------ claims

GenReturned(c) == frames[c].pc = "gen_returned"
ParseReturned(c) == frames[c].pc = "parse_returned"

\* C1: RouteAdapter::generate_request hands the held generator exactly the
\* caller's user location and waypoints, once, and returns exactly what the
\* generator returns for them, an envelope or a generation error.
C1_GenerateRequestDelegates ==
    \A c \in Callers :
        GenReturned(c) =>
            /\ frames[c].delegated =
                   <<Invocation(adapter.request_generator,
                                <<frames[c].user_location, frames[c].waypoints>>)>>
            /\ frames[c].result =
                   GeneratorResult(adapter.request_generator, frames[c].profile,
                                   frames[c].user_location, frames[c].waypoints)

\* One caller holds an envelope and the other a generation error.
C1_Witness ==
    \E c, d \in Callers :
        /\ GenReturned(c) /\ frames[c].result.ok /\ frames[c].waypoints # <<>>
        /\ GenReturned(d) /\ ~frames[d].result.ok

\* C2: RouteAdapter::parse_response hands the held parser exactly the
\* caller's bytes and returns exactly what the parser returns for them: the
\* same routes in the same order, or the same parsing error.
C2_ParseResponseDelegates ==
    \A c \in Callers :
        ParseReturned(c) =>
            /\ frames[c].delegated =
                   <<Invocation(adapter.response_parser, <<frames[c].response>>)>>
            /\ frames[c].result = ParserResult(adapter.response_parser, frames[c].response)

\* One caller holds the parsing error of the empty byte sequence and the
\* other a list of routes.
C2_Witness ==
    \E c, d \in Callers :
        /\ ParseReturned(c) /\ frames[c].response = <<>> /\ ~frames[c].result.ok
        /\ ParseReturned(d) /\ frames[d].result.ok /\ frames[d].result.value # <<>>

\* C3: every error a JsRouteAdapter operation (the constructor,
\* generateRequest, parseResponse) hands the host is a string.
C3_HostErrorsAreStrings ==
    /\ (js_last.op # "none" /\ ~js_last.result.ok) => js_last.result.error.js = "string"
    /\ (constructed.op = "JsRouteAdapter::new" /\ ~constructed.result.ok)
           => constructed.result.error.js = "string"

\* C4: new_valhalla_http returns the generator's instantiation error and no
\* adapter when the generator cannot be built, and otherwise an adapter of
\* that generator and an OSRM parser of precision 6.
C4_KnownPairing ==
    constructed.op = "new_valhalla_http" =>
        LET built == ValhallaHttpRequestGenerator_with_costing_options_json(
                         constructed.arguments[1], constructed.arguments[2],
                         constructed.arguments[3])
        IN  IF built.ok
            THEN /\ constructed.result =
                        Ok([request_generator |-> built.value,
                            response_parser |-> OsrmResponseParser_new(6)])
                 /\ adapter = constructed.result.value
            ELSE /\ constructed.result = Err(built.error)
                 /\ adapter = NoAdapter

\* The constructor was given a payload that is no JSON and has failed.
C4_Witness ==
    /\ constructed.op = "new_valhalla_http"
    /\ constructed.arguments[3] = Some("not json")
    /\ ~constructed.result.ok

\* C5: an encoded envelope has method "post", the url, the headers and the
\* body of an HttpPost, or method "get", the url and the headers of an
\* HttpGet, and a body exactly when its method is "post".
C5_UniformEnvelope ==
    (js_last.op \in {"encode", "generateRequest"} /\ js_last.result.ok) =>
        LET request == js_last.inner[1].value
            entries == js_last.result.value.entries
        IN  /\ js_last.result.value.js = "Map"
            /\ entries["method"] =
                   JsValue_from_str(IF request.type = "HttpPost" THEN "post" ELSE "get")
            /\ entries["url"] = JsValue_from_str(request.url)
            /\ entries["headers"].js = "Map"
            /\ DOMAIN entries["headers"].entries = DOMAIN request.headers
            /\ \A h \in DOMAIN request.headers :
                   entries["headers"].entries[h] = JsValue_from_str(request.headers[h])
            /\ ("body" \in DOMAIN entries) <=> (entries["method"].value = "post")
            /\ ("body" \in DOMAIN entries) <=> (request.type = "HttpPost")
            /\ request.type = "HttpPost" => entries["body"] = JsArray(request.body)

\* An HttpGet envelope with a header has been encoded.
C5_Witness ==
    /\ js_last.op = "encode"
    /\ js_last.result.ok
    /\ js_last.inner[1].value.type = "HttpGet"
    /\ DOMAIN js_last.inner[1].value.headers # {}

\* What the call in frame f returns when it runs alone in the present state.
AloneResult(f) ==
    IF f.pc = "gen_called"
    THEN GeneratorResult(adapter.request_generator, ConfigOf(adapter.request_generator),
                         f.user_location, f.waypoints)
    ELSE ParserResult(adapter.response_parser, f.response)

\* C6: whatever calls of other callers are in flight, the step that runs a
\* call's body gives the call the result it would get running alone and
\* leaves every other caller's call and result as they were.
C6_NoCrossContamination ==
    [][\A c \in Callers :
           (frames[c].pc \in {"gen_called", "parse_called"}
                /\ frames'[c].pc \in {"gen_returned", "parse_returned"})
               => /\ frames'[c].result = AloneResult(frames[c])
                  /\ \A d \in Callers \ {c} : frames'[d] = frames[d]]_vars

\* A generate_request has returned while a different generate_request of
\* the other caller, begun before it ran, is still in flight.
C6_Witness ==
    \E c, d \in Callers :
        /\ GenReturned(c)
        /\ frames[d].pc = "gen_called"
        /\ <<frames[d].user_location, frames[d].waypoints>>
               # <<frames[c].user_location, frames[c].waypoints>>
        /\ gen_calls = 1

\* C7: every generate_request call invokes the generator exactly once, also
\* for arguments seen before and also when the generator fails: after n
\* calls the generator has been invoked n times.
C7_OneInvocationPerCall ==
    /\ gen_invocations = gen_calls
    /\ \A c \in Callers : GenReturned(c) => Len(frames[c].delegated) = 1
    /\ js_last.op = "generateRequest" => Len(js_last.delegated) = Len(js_last.inner)

\* Both callers hold the generation error of identical arguments, after two
\* invocations.
C7_Witness ==
    /\ \A c \in Callers : GenReturned(c) /\ ~frames[c].result.ok
    /\ frames["t1"].user_location = frames["t2"].user_location
    /\ frames["t1"].waypoints = frames["t2"].waypoints
    /\ gen_invocations = 2

\* C8: in generateRequest a user location that does not decode ends the
\* call before the waypoints are decoded, and an input that does not decode
\* ends it with an error before the generator is invoked.
C8_DecodeBeforeInvoke ==
    js_last.op = "generateRequest" =>
        LET location == from_value_UserLocation(js_last.arguments[1])
            points == from_value_Waypoints(js_last.arguments[2])
        IN  /\ ~location.ok =>
                   /\ js_last.steps = <<"decode user_location">>
                   /\ js_last.delegated = <<>> /\ js_last.inner = <<>>
                   /\ ~js_last.result.ok
            /\ (location.ok /\ ~points.ok) =>
                   /\ js_last.steps = <<"decode user_location", "decode waypoints">>
                   /\ js_last.delegated = <<>> /\ js_last.inner = <<>>
                   /\ ~js_last.result.ok
            /\ js_last.delegated # <<>> =>
                   /\ location.ok /\ points.ok
                   /\ SubSeq(js_last.steps, 1, 3) =
                          <<"decode user_location", "decode waypoints", "invoke">>

\* The host passed a user location that does not decode, with waypoints that
\* would not have decoded either.
C8_Witness ==
    /\ js_last.op = "generateRequest"
    /\ js_last.arguments[1].js = "undefined"
    /\ js_last.arguments[2].js = "string"

\* C9: the adapter holds the generator and the parser it was constructed
\* with, and nothing else, whatever calls have been made on it.
C9_FieldsFixed ==
    adapter # NoAdapter =>
        /\ DOMAIN adapter = {"request_generator", "response_parser"}
        /\ constructed.op = "new" =>
               /\ adapter.request_generator = constructed.arguments[1]
               /\ adapter.response_parser = constructed.arguments[2]
        /\ constructed.op # "new" =>
               /\ adapter.request_generator =
                      ValhallaHttpRequestGenerator_with_costing_options_json(
                          constructed.arguments[1], constructed.arguments[2],
                          constructed.arguments[3]).value
               /\ adapter.response_parser = OsrmResponseParser_new(6)

\* An adapter built by new, after a failed generate_request and with a
\* failed parse_response just returned.
C9_Witness ==
    /\ constructed.op = "new"
    /\ constructed.arguments[2] \in ForeignParsers
    /\ gen_calls >= 2
    /\ GenReturned("t1") /\ ~frames["t1"].result.ok
    /\ ParseReturned("t2") /\ ~frames["t2"].result.ok

\* C10: two generate_request calls with the same user location and
\* waypoints, made under the same generator configuration, return equal
\* results, whatever calls were made in between.
C10_Idempotent ==
    \A c, d \in Callers :
        ( /\ GenReturned(c) /\ GenReturned(d)
          /\ frames[c].user_location = frames[d].user_location
          /\ frames[c].waypoints = frames[d].waypoints
          /\ frames[c].profile = frames[d].profile )
            => frames[c].result = frames[d].result

\* Both callers hold an envelope for the same arguments and configuration,
\* and a third call was made between the two.
C10_Witness ==
    /\ \A c \in Callers : GenReturned(c) /\ frames[c].result.ok
    /\ frames["t1"].user_location = frames["t2"].user_location
    /\ frames["t1"].waypoints = frames["t2"].waypoints
    /\ frames["t1"].profile = frames["t2"].profile
    /\ gen_calls = 3

====
